---- MODULE Spec2Model ----
(***************************************************************************)
(* The TCP header record of src/src/tcp.rs: the struct TCP, its            *)
(* constructor new, its 13 accessors get_* and its 13 fluent mutators      *)
(* set_*, together with a caller that constructs a record, reads it,       *)
(* modifies the byte vectors the accessors hand back, and chains mutators. *)
(* A Vec<u8> is an owned heap buffer, so the three variable-length fields   *)
(* hold buffer addresses and the heap is part of the state.                *)
(***************************************************************************)
EXTENDS Integers, Sequences, FiniteSets, TLC

\* ---------------------------------------------------------------- bounds
\* Longest byte vector a caller passes to new or to a mutator.
MaxLen == 1
\* Most mutator calls made on one record.
MaxSets == 2
\* Heap buffers available: three owned by the record, one returned copy,
\* one being cloned or passed in.
NumAddr == 5

\* ----------------------------------------------------------------- types
U8 == 0 .. (2^8 - 1)

U16 == 0 .. (2^16 - 1)

\* A u32 as its high and low 16-bit words (2^32 - 1 is <<65535, 65535>>).
U32 == U16 \X U16

\* std::net::Ipv4Addr: four octets.
Ipv4Addr == [1..4 -> U8]

Addr == 1 .. NumAddr

\* The contents a Vec<u8> can have.
ByteVecs == Seq(U8)

Fields == {"source", "destination", "sequence", "acknowledgment", "data_offset",
           "reserved", "flags", "window_size", "checksum", "urgent_pointer",
           "options", "padding", "data"}

VecFields == {"options", "padding", "data"}

\* pub struct TCP: the three Vec<u8> fields own a heap buffer each.
TCP ==
  [source : Ipv4Addr,
   destination : Ipv4Addr,
   sequence : U32,
   acknowledgment : U32,
   data_offset : U8,
   reserved : U8,
   flags : U16,
   window_size : U16,
   checksum : U16,
   urgent_pointer : U16,
   options : Addr,
   padding : Addr,
   data : Addr]

\* ------------------------------------------------------- caller's inputs
Ipv4Vals == {<<192, 0, 2, 1>>, <<255, 255, 255, 255>>}

U32Vals == {<<0, 2>>, <<65535, 65535>>}

U8Vals == {0, 2^8 - 1}

U16Vals == {0, 2^16 - 1}

Pattern(n) == [i \in 1..n |-> IF i % 2 = 1 THEN 255 ELSE 0]

\* Empty and non-empty byte vectors.
VecVals == {Pattern(n) : n \in 0..MaxLen}

\* Bytes the caller writes into a vector it was handed.
ByteVals == {0, 255}

\* A SYN segment with no options, padding or payload.
Scenario ==
  [source |-> <<192, 0, 2, 1>>, destination |-> <<192, 0, 2, 2>>,
   sequence |-> <<0, 1>>, acknowledgment |-> <<0, 0>>, data_offset |-> 5, reserved |-> 0,
   flags |-> 2, window_size |-> 65535, checksum |-> 0, urgent_pointer |-> 0,
   options |-> <<>>, padding |-> <<>>, data |-> <<>>]

\* Values outside what the protocol allows, mutually inconsistent: a data
\* offset of 255 words with one option byte, reserved bits set, every flag
\* bit set.
Extreme ==
  [source |-> <<255, 255, 255, 255>>, destination |-> <<0, 0, 0, 0>>,
   sequence |-> <<65535, 65535>>, acknowledgment |-> <<65535, 65534>>,
   data_offset |-> 255, reserved |-> 7,
   flags |-> 65535, window_size |-> 1, checksum |-> 65534, urgent_pointer |-> 9,
   options |-> <<2>>, padding |-> <<0>>, data |-> <<255>>]

CtorArgs == {Scenario, Extreme}

\* ------------------------------------------------------------------ heap
Freed == [live |-> FALSE, bytes |-> <<>>]

\* A new Vec<u8> holding bytes: the lowest free buffer.
alloc(h, bytes) ==
  LET a == CHOOSE x \in Addr : ~h[x].live /\ \A y \in Addr : y < x => h[y].live
  IN  [heap |-> [h EXCEPT ![a] = [live |-> TRUE, bytes |-> bytes]], vec |-> a]

\* Vec::clone: a new buffer with the same bytes.
clone(h, v) == alloc(h, h[v].bytes)

\* A Vec<u8> going out of scope, or being assigned over.
drop(h, v) == [h EXCEPT ![v] = Freed]

\* ----------------------------------------------------------- constructor
\* new with the sequence and acknowledgment numbers stored in each other's field.
new_swapped(source, destination, sequence, acknowledgment, data_offset, reserved, flags, window_size, checksum, urgent_pointer, options, padding, data) ==
  [source |-> source, destination |-> destination,
   sequence |-> acknowledgment, acknowledgment |-> sequence,
   data_offset |-> data_offset, reserved |-> reserved, flags |-> flags,
   window_size |-> window_size, checksum |-> checksum,
   urgent_pointer |-> urgent_pointer,
   options |-> options, padding |-> padding, data |-> data]

new(source, destination, sequence, acknowledgment, data_offset, reserved, flags, window_size, checksum, urgent_pointer, options, padding, data) ==
  [source |-> source,
   destination |-> destination,
   sequence |-> sequence,
   acknowledgment |-> acknowledgment,
   data_offset |-> data_offset,
   reserved |-> reserved,
   flags |-> flags,
   window_size |-> window_size,
   checksum |-> checksum,
   urgent_pointer |-> urgent_pointer,
   options |-> options,
   padding |-> padding,
   data |-> data]

\* ------------------------------------------------------------- accessors
\* An accessor takes &mut self: it yields the record as it leaves it and the
\* value it returns.
get_source(self) == [self |-> self, ret |-> self.source]

get_destination(self) == [self |-> self, ret |-> self.destination]

get_sequence(self) == [self |-> self, ret |-> self.sequence]

get_acknowledgement(self) == [self |-> self, ret |-> self.acknowledgment]

get_data_offset(self) == [self |-> self, ret |-> self.data_offset]

get_reserved(self) == [self |-> self, ret |-> self.reserved]

get_flags(self) == [self |-> self, ret |-> self.flags]

get_window_size(self) == [self |-> self, ret |-> self.window_size]

\* get_checksum that uses its &mut self to clear the field it read.
get_checksum_clearing(self) ==
  [self |-> [self EXCEPT !.checksum = 0], ret |-> self.checksum]

get_checksum(self) == [self |-> self, ret |-> self.checksum]

get_urgent_ponter(self) == [self |-> self, ret |-> self.urgent_pointer]

\* get_options that hands out the record's own buffer instead of a clone.
get_options_shared(self, h) == [self |-> self, heap |-> h, ret |-> self.options]

get_options(self, h) ==
  LET c == clone(h, self.options)
  IN  [self |-> self, heap |-> c.heap, ret |-> c.vec]

get_padding(self, h) ==
  LET c == clone(h, self.padding)
  IN  [self |-> self, heap |-> c.heap, ret |-> c.vec]

get_data(self, h) ==
  LET c == clone(h, self.data)
  IN  [self |-> self, heap |-> c.heap, ret |-> c.vec]

\* -------------------------------------------------------------- mutators
\* A mutator takes self by value and returns it with one field assigned.
set_source(self, source) == [self EXCEPT !.source = source]

set_destination(self, destination) == [self EXCEPT !.destination = destination]

\* set_sequence that also assigns the acknowledgment number.
set_sequence_both(self, sequence) ==
  [self EXCEPT !.sequence = sequence, !.acknowledgment = sequence]

set_sequence(self, sequence) == [self EXCEPT !.sequence = sequence]

\* set_acknowledgement that assigns the sequence number instead.
set_acknowledgement_misplaced(self, acknowledgment) ==
  [self EXCEPT !.sequence = acknowledgment]

set_acknowledgement(self, acknowledgment) == [self EXCEPT !.acknowledgment = acknowledgment]

\* set_data_offset that keeps only the 4 bits the protocol defines.
set_data_offset_masked(self, data_offset) ==
  [self EXCEPT !.data_offset = data_offset % 16]

set_data_offset(self, data_offset) == [self EXCEPT !.data_offset = data_offset]

\* set_reserved that refuses a value the protocol forbids.
Refused == [error |-> "reserved bits must be zero"]

set_reserved_checked(self, reserved) ==
  IF reserved /= 0 THEN Refused ELSE [self EXCEPT !.reserved = reserved]

set_reserved(self, reserved) == [self EXCEPT !.reserved = reserved]

\* set_flags that ORs the new bits into the old ones.
RECURSIVE BitOr(_, _)
BitOr(a, b) ==
  IF a = 0 THEN b
  ELSE IF b = 0 THEN a
  ELSE (IF a % 2 = 1 \/ b % 2 = 1 THEN 1 ELSE 0) + 2 * BitOr(a \div 2, b \div 2)

set_flags_or(self, flags) == [self EXCEPT !.flags = BitOr(@, flags)]

set_flags(self, flags) == [self EXCEPT !.flags = flags]

\* set_window_size that adds to the window (wrapping) instead of assigning.
set_window_size_adding(self, window_size) ==
  [self EXCEPT !.window_size = (@ + window_size) % 2^16]

set_window_size(self, window_size) == [self EXCEPT !.window_size = window_size]

set_checksum(self, checksum) == [self EXCEPT !.checksum = checksum]

set_urgent_ponter(self, urgent_pointer) == [self EXCEPT !.urgent_pointer = urgent_pointer]

set_options(self, options) == [self EXCEPT !.options = options]

set_padding(self, padding) == [self EXCEPT !.padding = padding]

set_data(self, data) == [self EXCEPT !.data = data]

\* ----------------------------------------------------------------- state
VARIABLES
  pc,       \* "start" before TCP::new has run, "live" once the record exists
  tcp,      \* the record the caller owns
  heap,     \* the buffers behind every Vec<u8>
  ret,      \* what the last accessor call returned to the caller
  op,       \* the last call made
  args,     \* the values TCP::new was called with
  written,  \* per field, the value most recently supplied for it
  chain,    \* the mutator calls of the fluent chain in progress
  nsets     \* mutator calls made on the record so far

vars == <<pc, tcp, heap, ret, op, args, written, chain, nsets>>

\* The bytes of the vector a Vec accessor returned.
Returned(r) == r.heap[r.ret].bytes

\* What the 13 accessors return on a record.
Observe(self, h) ==
  [source |-> get_source(self).ret,
   destination |-> get_destination(self).ret,
   sequence |-> get_sequence(self).ret,
   acknowledgment |-> get_acknowledgement(self).ret,
   data_offset |-> get_data_offset(self).ret,
   reserved |-> get_reserved(self).ret,
   flags |-> get_flags(self).ret,
   window_size |-> get_window_size(self).ret,
   checksum |-> get_checksum(self).ret,
   urgent_pointer |-> get_urgent_ponter(self).ret,
   options |-> Returned(get_options(self, h)),
   padding |-> Returned(get_padding(self, h)),
   data |-> Returned(get_data(self, h))]

\* No record before TCP::new has run.
Unbuilt == [source |-> 0, destination |-> 0, sequence |-> 0, acknowledgment |-> 0,
            data_offset |-> 0, reserved |-> 0, flags |-> 0, window_size |-> 0, checksum |-> 0,
            urgent_pointer |-> 0, options |-> 0, padding |-> 0, data |-> 0]

NoRet == [kind |-> "none", v |-> 0]

\* The value the caller holds after an accessor call.
RetVal(r, h) == IF r.kind = "vec" THEN h[r.v].bytes ELSE r.v

\* The caller lets go of the vector it was handed.
DropRet(h, r) == IF r.kind = "vec" THEN drop(h, r.v) ELSE h

\* A call of the accessor of f that returned val. It is a second look when
\* the caller has just changed the vector the same accessor returned before;
\* first is what that earlier call returned.
GetOp(f, val) ==
  LET after == op.kind = "caller" /\ op.field = f
  IN  [kind |-> "get", field |-> f, second |-> after,
       first |-> IF after THEN op.first ELSE val]

SetOp(f) == [kind |-> "set", field |-> f, second |-> FALSE, first |-> <<>>]

CallerOp == [kind |-> "caller", field |-> op.field, second |-> FALSE, first |-> op.first]

\* One mutator call of a chain: the field, the value supplied, and what the
\* accessors returned on the receiver.
Link(f, v) == [field |-> f, val |-> v, before |-> Observe(tcp, heap)]

Init ==
  /\ pc = "start"
  /\ tcp = Unbuilt
  /\ heap = [a \in Addr |-> Freed]
  /\ ret = NoRet
  /\ op = [kind |-> "none", field |-> "none", second |-> FALSE, first |-> <<>>]
  /\ args = Unbuilt
  /\ written = Unbuilt
  /\ chain = <<>>
  /\ nsets = 0

\* let tcp = TCP::new(...): the caller builds the three vectors and moves
\* them in.
New(a) ==
  /\ pc = "start"
  /\ LET o == alloc(heap, a.options)
         p == alloc(o.heap, a.padding)
         d == alloc(p.heap, a.data)
     IN  /\ tcp' = new(a.source, a.destination, a.sequence, a.acknowledgment,
                       a.data_offset, a.reserved, a.flags, a.window_size,
                       a.checksum, a.urgent_pointer, o.vec, p.vec, d.vec)
         /\ heap' = d.heap
  /\ pc' = "live"
  /\ args' = a
  /\ written' = a
  /\ op' = [kind |-> "new", field |-> "none", second |-> FALSE, first |-> <<>>]
  /\ UNCHANGED <<ret, chain, nsets>>

GetSource ==
  /\ pc = "live"
  /\ LET r == get_source(tcp)
     IN  /\ tcp' = r.self
         /\ ret' = [kind |-> "val", v |-> r.ret]
         /\ op' = GetOp("source", r.ret)
  /\ heap' = DropRet(heap, ret)
  /\ chain' = <<>>
  /\ UNCHANGED <<pc, args, written, nsets>>

GetDestination ==
  /\ pc = "live"
  /\ LET r == get_destination(tcp)
     IN  /\ tcp' = r.self
         /\ ret' = [kind |-> "val", v |-> r.ret]
         /\ op' = GetOp("destination", r.ret)
  /\ heap' = DropRet(heap, ret)
  /\ chain' = <<>>
  /\ UNCHANGED <<pc, args, written, nsets>>

GetSequence ==
  /\ pc = "live"
  /\ LET r == get_sequence(tcp)
     IN  /\ tcp' = r.self
         /\ ret' = [kind |-> "val", v |-> r.ret]
         /\ op' = GetOp("sequence", r.ret)
  /\ heap' = DropRet(heap, ret)
  /\ chain' = <<>>
  /\ UNCHANGED <<pc, args, written, nsets>>

GetAcknowledgement ==
  /\ pc = "live"
  /\ LET r == get_acknowledgement(tcp)
     IN  /\ tcp' = r.self
         /\ ret' = [kind |-> "val", v |-> r.ret]
         /\ op' = GetOp("acknowledgment", r.ret)
  /\ heap' = DropRet(heap, ret)
  /\ chain' = <<>>
  /\ UNCHANGED <<pc, args, written, nsets>>

GetDataOffset ==
  /\ pc = "live"
  /\ LET r == get_data_offset(tcp)
     IN  /\ tcp' = r.self
         /\ ret' = [kind |-> "val", v |-> r.ret]
         /\ op' = GetOp("data_offset", r.ret)
  /\ heap' = DropRet(heap, ret)
  /\ chain' = <<>>
  /\ UNCHANGED <<pc, args, written, nsets>>

GetReserved ==
  /\ pc = "live"
  /\ LET r == get_reserved(tcp)
     IN  /\ tcp' = r.self
         /\ ret' = [kind |-> "val", v |-> r.ret]
         /\ op' = GetOp("reserved", r.ret)
  /\ heap' = DropRet(heap, ret)
  /\ chain' = <<>>
  /\ UNCHANGED <<pc, args, written, nsets>>

GetFlags ==
  /\ pc = "live"
  /\ LET r == get_flags(tcp)
     IN  /\ tcp' = r.self
         /\ ret' = [kind |-> "val", v |-> r.ret]
         /\ op' = GetOp("flags", r.ret)
  /\ heap' = DropRet(heap, ret)
  /\ chain' = <<>>
  /\ UNCHANGED <<pc, args, written, nsets>>

GetWindowSize ==
  /\ pc = "live"
  /\ LET r == get_window_size(tcp)
     IN  /\ tcp' = r.self
         /\ ret' = [kind |-> "val", v |-> r.ret]
         /\ op' = GetOp("window_size", r.ret)
  /\ heap' = DropRet(heap, ret)
  /\ chain' = <<>>
  /\ UNCHANGED <<pc, args, written, nsets>>

GetChecksum ==
  /\ pc = "live"
  /\ LET r == get_checksum(tcp)
     IN  /\ tcp' = r.self
         /\ ret' = [kind |-> "val", v |-> r.ret]
         /\ op' = GetOp("checksum", r.ret)
  /\ heap' = DropRet(heap, ret)
  /\ chain' = <<>>
  /\ UNCHANGED <<pc, args, written, nsets>>

GetUrgentPonter ==
  /\ pc = "live"
  /\ LET r == get_urgent_ponter(tcp)
     IN  /\ tcp' = r.self
         /\ ret' = [kind |-> "val", v |-> r.ret]
         /\ op' = GetOp("urgent_pointer", r.ret)
  /\ heap' = DropRet(heap, ret)
  /\ chain' = <<>>
  /\ UNCHANGED <<pc, args, written, nsets>>

GetOptions ==
  /\ pc = "live"
  /\ LET r == get_options(tcp, DropRet(heap, ret))
     IN  /\ tcp' = r.self
         /\ heap' = r.heap
         /\ ret' = [kind |-> "vec", v |-> r.ret]
         /\ op' = GetOp("options", Returned(r))
  /\ chain' = <<>>
  /\ UNCHANGED <<pc, args, written, nsets>>

GetPadding ==
  /\ pc = "live"
  /\ LET r == get_padding(tcp, DropRet(heap, ret))
     IN  /\ tcp' = r.self
         /\ heap' = r.heap
         /\ ret' = [kind |-> "vec", v |-> r.ret]
         /\ op' = GetOp("padding", Returned(r))
  /\ chain' = <<>>
  /\ UNCHANGED <<pc, args, written, nsets>>

GetData ==
  /\ pc = "live"
  /\ LET r == get_data(tcp, DropRet(heap, ret))
     IN  /\ tcp' = r.self
         /\ heap' = r.heap
         /\ ret' = [kind |-> "vec", v |-> r.ret]
         /\ op' = GetOp("data", Returned(r))
  /\ chain' = <<>>
  /\ UNCHANGED <<pc, args, written, nsets>>

SetSource(v) ==
  /\ pc = "live"
  /\ nsets < MaxSets
  /\ tcp' = set_source(tcp, v)
  /\ heap' = DropRet(heap, ret)
  /\ ret' = NoRet
  /\ op' = SetOp("source")
  /\ written' = [written EXCEPT !.source = v]
  /\ chain' = Append(chain, Link("source", v))
  /\ nsets' = nsets + 1
  /\ UNCHANGED <<pc, args>>

SetDestination(v) ==
  /\ pc = "live"
  /\ nsets < MaxSets
  /\ tcp' = set_destination(tcp, v)
  /\ heap' = DropRet(heap, ret)
  /\ ret' = NoRet
  /\ op' = SetOp("destination")
  /\ written' = [written EXCEPT !.destination = v]
  /\ chain' = Append(chain, Link("destination", v))
  /\ nsets' = nsets + 1
  /\ UNCHANGED <<pc, args>>

SetSequence(v) ==
  /\ pc = "live"
  /\ nsets < MaxSets
  /\ tcp' = set_sequence(tcp, v)
  /\ heap' = DropRet(heap, ret)
  /\ ret' = NoRet
  /\ op' = SetOp("sequence")
  /\ written' = [written EXCEPT !.sequence = v]
  /\ chain' = Append(chain, Link("sequence", v))
  /\ nsets' = nsets + 1
  /\ UNCHANGED <<pc, args>>

SetAcknowledgement(v) ==
  /\ pc = "live"
  /\ nsets < MaxSets
  /\ tcp' = set_acknowledgement(tcp, v)
  /\ heap' = DropRet(heap, ret)
  /\ ret' = NoRet
  /\ op' = SetOp("acknowledgment")
  /\ written' = [written EXCEPT !.acknowledgment = v]
  /\ chain' = Append(chain, Link("acknowledgment", v))
  /\ nsets' = nsets + 1
  /\ UNCHANGED <<pc, args>>

SetDataOffset(v) ==
  /\ pc = "live"
  /\ nsets < MaxSets
  /\ tcp' = set_data_offset(tcp, v)
  /\ heap' = DropRet(heap, ret)
  /\ ret' = NoRet
  /\ op' = SetOp("data_offset")
  /\ written' = [written EXCEPT !.data_offset = v]
  /\ chain' = Append(chain, Link("data_offset", v))
  /\ nsets' = nsets + 1
  /\ UNCHANGED <<pc, args>>

SetReserved(v) ==
  /\ pc = "live"
  /\ nsets < MaxSets
  /\ tcp' = set_reserved(tcp, v)
  /\ heap' = DropRet(heap, ret)
  /\ ret' = NoRet
  /\ op' = SetOp("reserved")
  /\ written' = [written EXCEPT !.reserved = v]
  /\ chain' = Append(chain, Link("reserved", v))
  /\ nsets' = nsets + 1
  /\ UNCHANGED <<pc, args>>

SetFlags(v) ==
  /\ pc = "live"
  /\ nsets < MaxSets
  /\ tcp' = set_flags(tcp, v)
  /\ heap' = DropRet(heap, ret)
  /\ ret' = NoRet
  /\ op' = SetOp("flags")
  /\ written' = [written EXCEPT !.flags = v]
  /\ chain' = Append(chain, Link("flags", v))
  /\ nsets' = nsets + 1
  /\ UNCHANGED <<pc, args>>

SetWindowSize(v) ==
  /\ pc = "live"
  /\ nsets < MaxSets
  /\ tcp' = set_window_size(tcp, v)
  /\ heap' = DropRet(heap, ret)
  /\ ret' = NoRet
  /\ op' = SetOp("window_size")
  /\ written' = [written EXCEPT !.window_size = v]
  /\ chain' = Append(chain, Link("window_size", v))
  /\ nsets' = nsets + 1
  /\ UNCHANGED <<pc, args>>

SetChecksum(v) ==
  /\ pc = "live"
  /\ nsets < MaxSets
  /\ tcp' = set_checksum(tcp, v)
  /\ heap' = DropRet(heap, ret)
  /\ ret' = NoRet
  /\ op' = SetOp("checksum")
  /\ written' = [written EXCEPT !.checksum = v]
  /\ chain' = Append(chain, Link("checksum", v))
  /\ nsets' = nsets + 1
  /\ UNCHANGED <<pc, args>>

SetUrgentPonter(v) ==
  /\ pc = "live"
  /\ nsets < MaxSets
  /\ tcp' = set_urgent_ponter(tcp, v)
  /\ heap' = DropRet(heap, ret)
  /\ ret' = NoRet
  /\ op' = SetOp("urgent_pointer")
  /\ written' = [written EXCEPT !.urgent_pointer = v]
  /\ chain' = Append(chain, Link("urgent_pointer", v))
  /\ nsets' = nsets + 1
  /\ UNCHANGED <<pc, args>>

\* The new vector is moved in; the one it replaces is dropped.
SetOptions(v) ==
  /\ pc = "live"
  /\ nsets < MaxSets
  /\ LET n == alloc(DropRet(heap, ret), v)
     IN  /\ tcp' = set_options(tcp, n.vec)
         /\ heap' = drop(n.heap, tcp.options)
  /\ ret' = NoRet
  /\ op' = SetOp("options")
  /\ written' = [written EXCEPT !.options = v]
  /\ chain' = Append(chain, Link("options", v))
  /\ nsets' = nsets + 1
  /\ UNCHANGED <<pc, args>>

\* The new vector is moved in; the one it replaces is dropped.
SetPadding(v) ==
  /\ pc = "live"
  /\ nsets < MaxSets
  /\ LET n == alloc(DropRet(heap, ret), v)
     IN  /\ tcp' = set_padding(tcp, n.vec)
         /\ heap' = drop(n.heap, tcp.padding)
  /\ ret' = NoRet
  /\ op' = SetOp("padding")
  /\ written' = [written EXCEPT !.padding = v]
  /\ chain' = Append(chain, Link("padding", v))
  /\ nsets' = nsets + 1
  /\ UNCHANGED <<pc, args>>

\* The new vector is moved in; the one it replaces is dropped.
SetData(v) ==
  /\ pc = "live"
  /\ nsets < MaxSets
  /\ LET n == alloc(DropRet(heap, ret), v)
     IN  /\ tcp' = set_data(tcp, n.vec)
         /\ heap' = drop(n.heap, tcp.data)
  /\ ret' = NoRet
  /\ op' = SetOp("data")
  /\ written' = [written EXCEPT !.data = v]
  /\ chain' = Append(chain, Link("data", v))
  /\ nsets' = nsets + 1
  /\ UNCHANGED <<pc, args>>

\* The caller changes the vector a Vec accessor just returned.
CallerPush(b) ==
  /\ pc = "live"
  /\ ret.kind = "vec"
  /\ op.kind = "get"
  /\ Len(heap[ret.v].bytes) <= MaxLen
  /\ heap' = [heap EXCEPT ![ret.v].bytes = Append(@, b)]
  /\ op' = CallerOp
  /\ UNCHANGED <<pc, tcp, ret, args, written, chain, nsets>>

CallerPop ==
  /\ pc = "live"
  /\ ret.kind = "vec"
  /\ op.kind = "get"
  /\ heap[ret.v].bytes /= <<>>
  /\ heap' = [heap EXCEPT ![ret.v].bytes = SubSeq(@, 1, Len(@) - 1)]
  /\ op' = CallerOp
  /\ UNCHANGED <<pc, tcp, ret, args, written, chain, nsets>>

CallerOverwrite(b) ==
  /\ pc = "live"
  /\ ret.kind = "vec"
  /\ op.kind = "get"
  /\ heap[ret.v].bytes /= <<>>
  /\ heap' = [heap EXCEPT ![ret.v].bytes[1] = b]
  /\ op' = CallerOp
  /\ UNCHANGED <<pc, tcp, ret, args, written, chain, nsets>>

Next ==
  \/ \E a \in CtorArgs : New(a)
  \/ GetSource
  \/ GetDestination
  \/ GetSequence
  \/ GetAcknowledgement
  \/ GetDataOffset
  \/ GetReserved
  \/ GetFlags
  \/ GetWindowSize
  \/ GetChecksum
  \/ GetUrgentPonter
  \/ GetOptions
  \/ GetPadding
  \/ GetData
  \/ \E v \in Ipv4Vals : SetSource(v)
  \/ \E v \in Ipv4Vals : SetDestination(v)
  \/ \E v \in U32Vals : SetSequence(v)
  \/ \E v \in U32Vals : SetAcknowledgement(v)
  \/ \E v \in U8Vals : SetDataOffset(v)
  \/ \E v \in U8Vals : SetReserved(v)
  \/ \E v \in U16Vals : SetFlags(v)
  \/ \E v \in U16Vals : SetWindowSize(v)
  \/ \E v \in U16Vals : SetChecksum(v)
  \/ \E v \in U16Vals : SetUrgentPonter(v)
  \/ \E v \in VecVals : SetOptions(v)
  \/ \E v \in VecVals : SetPadding(v)
  \/ \E v \in VecVals : SetData(v)
  \/ \E b \in ByteVals : CallerPush(b)
  \/ CallerPop
  \/ \E b \in ByteVals : CallerOverwrite(b)

Spec == Init /\ [][Next]_vars

\* ---------------------------------------------------------------- claims
\* The mutator of field f.
Set(f, self, v) ==
  CASE f = "source" -> set_source(self, v)
    [] f = "destination" -> set_destination(self, v)
    [] f = "sequence" -> set_sequence(self, v)
    [] f = "acknowledgment" -> set_acknowledgement(self, v)
    [] f = "data_offset" -> set_data_offset(self, v)
    [] f = "reserved" -> set_reserved(self, v)
    [] f = "flags" -> set_flags(self, v)
    [] f = "window_size" -> set_window_size(self, v)
    [] f = "checksum" -> set_checksum(self, v)
    [] f = "urgent_pointer" -> set_urgent_ponter(self, v)
    [] f = "options" -> set_options(self, v)
    [] f = "padding" -> set_padding(self, v)
    [] f = "data" -> set_data(self, v)

\* What the accessors return on the caller's record now.
Seen == Observe(tcp, heap)

\* The mutator call just made, and the one chained before it.
Last == chain[Len(chain)]

Prior == chain[Len(chain) - 1]

\* The values the 13 accessors can return.
Values ==
  [source : Ipv4Addr,
   destination : Ipv4Addr,
   sequence : U32,
   acknowledgment : U32,
   data_offset : U8,
   reserved : U8,
   flags : U16,
   window_size : U16,
   checksum : U16,
   urgent_pointer : U16,
   options : ByteVecs,
   padding : ByteVecs,
   data : ByteVecs]

\* Arguments for the mutator of f: for a Vec field, the buffers of the
\* vectors a caller can pass.
Inputs(f) ==
  CASE f \in {"source", "destination"} -> Ipv4Vals
    [] f \in {"sequence", "acknowledgment"} -> U32Vals
    [] f \in {"data_offset", "reserved"} -> U8Vals
    [] f \in {"flags", "window_size", "checksum", "urgent_pointer"} -> U16Vals
    [] f \in VecFields -> Addr

\* The fields the protocol constrains and the code does not.
RawFields == {"data_offset", "reserved", "flags", "checksum", "urgent_pointer"}

\* C1: constructor round-trip. On the record new(...) returns, before any
\* mutator call, the 13 accessors return the 13 values passed to new, and each
\* accessor call returns the value passed for its own field.
C1_ConstructorRoundTrip ==
  /\ op.kind = "new" => Seen = args
  /\ (op.kind = "get" /\ nsets = 0) => RetVal(ret, heap) = args[op.field]

\* get_acknowledgement has run on a fresh record whose sequence and
\* acknowledgment numbers differ.
C1_Witness ==
  /\ op.kind = "get" /\ op.field = "acknowledgment" /\ nsets = 0
  /\ args.sequence /= args.acknowledgment
  /\ ret.v = args.acknowledgment

\* C2: single-field-update isolation. After the mutator of f is applied with v,
\* the accessor of f returns v and the other 12 accessors return what they
\* returned on the receiver.
C2_SingleFieldUpdate ==
  op.kind = "set" =>
    LET now == Seen
    IN  /\ now[Last.field] = Last.val
        /\ \A g \in Fields \ {Last.field} : now[g] = Last.before[g]

\* set_sequence has replaced the sequence number by a different one.
C2_Witness ==
  /\ op.kind = "set" /\ Last.field = "sequence"
  /\ Last.before.sequence /= Last.val
  /\ Last.before.acknowledgment /= Last.val

\* C3: chained mutators of two distinct fields f1, f2 leave v1 in f1 and v2 in
\* f2, and the record equals, field for field, the one the two mutators give in
\* the opposite order.
C3_ChainOrder ==
  (Len(chain) >= 2 /\ Prior.field /= Last.field) =>
    LET now == Seen
    IN  /\ now[Prior.field] = Prior.val
        /\ now[Last.field] = Last.val
        /\ now = Set(Prior.field, Set(Last.field, Prior.before, Last.val), Prior.val)

\* set_sequence then set_acknowledgement, both changing their field.
C3_Witness ==
  /\ Len(chain) >= 2
  /\ Prior.field = "sequence" /\ Last.field = "acknowledgment"
  /\ Prior.before.sequence /= Prior.val
  /\ Last.before.acknowledgment /= Last.val
  /\ Prior.val /= Last.val

\* C4: accessors are pure reads. An accessor call leaves all 13 fields of the
\* record as they were, the bytes of its three vectors included, and calling
\* the same accessor again at once returns the same value.
C4_AccessorsPure ==
  [][op'.kind = "get" =>
       /\ tcp' = tcp
       /\ \A f \in VecFields : heap'[tcp'[f]] = heap[tcp[f]]
       /\ (op.kind = "get" /\ op.field = op'.field) =>
             RetVal(ret', heap') = RetVal(ret, heap)]_vars

\* get_checksum has returned a non-zero checksum.
C4_Witness ==
  op.kind = "get" /\ op.field = "checksum" /\ ret.v /= 0

\* C5: copy independence. The vector a Vec accessor returns is a buffer of its
\* own; once the caller has changed it, the record still holds the sequence
\* that was returned, and the same accessor called again returns that sequence.
C5_CopyIndependence ==
  /\ (pc = "live" /\ ret.kind = "vec") =>
        ret.v \notin {tcp.options, tcp.padding, tcp.data}
  /\ op.kind = "caller" => Seen[op.field] = op.first
  /\ (op.kind = "get" /\ op.second) => RetVal(ret, heap) = op.first

\* A Vec accessor called again after the caller changed the non-empty vector
\* it had returned.
C5_Witness ==
  op.kind = "get" /\ op.second /\ op.first /= <<>>

\* C6: no validation or masking. data_offset, reserved, flags, checksum and
\* urgent_pointer hold, bit for bit, the value last passed to new or to their
\* mutator, also outside the protocol's range, and their accessors return it.
C6_NoMasking ==
  pc = "live" =>
    /\ LET now == Seen IN \A f \in RawFields : now[f] = written[f]
    /\ (op.kind = "get" /\ op.field \in RawFields) =>
          RetVal(ret, heap) = written[op.field]

\* set_data_offset was given 255, beyond 4 bits, on a record with reserved
\* bits set, and get_data_offset returned 255.
C6_Witness ==
  /\ op.kind = "get" /\ op.field = "data_offset" /\ ret.v = 255
  /\ args.data_offset /= 255
  /\ Seen.reserved /= 0

\* C7: totality. Every state the calls reach holds a well-formed record over
\* live, distinct buffers; every accessor can be called in it, and, up to the
\* bound on chained calls, every mutator for every value.
C7_Totality ==
  /\ pc = "start" => \A a \in CtorArgs : ENABLED New(a)
  /\ pc = "live" =>
        /\ tcp \in TCP
        /\ Cardinality({tcp.options, tcp.padding, tcp.data}) = 3
        /\ \A f \in VecFields : heap[tcp[f]].live /\ heap[tcp[f]].bytes \in ByteVecs
        /\ Observe(tcp, heap) \in Values
        /\ \A f \in Fields : \A v \in Inputs(f) : Set(f, tcp, v) \in TCP
        /\ get_source(tcp).self \in TCP
        /\ get_destination(tcp).self \in TCP
        /\ get_sequence(tcp).self \in TCP
        /\ get_acknowledgement(tcp).self \in TCP
        /\ get_data_offset(tcp).self \in TCP
        /\ get_reserved(tcp).self \in TCP
        /\ get_flags(tcp).self \in TCP
        /\ get_window_size(tcp).self \in TCP
        /\ get_checksum(tcp).self \in TCP
        /\ get_urgent_ponter(tcp).self \in TCP
        /\ get_options(tcp, heap).self \in TCP
        /\ get_padding(tcp, heap).self \in TCP
        /\ get_data(tcp, heap).self \in TCP

\* A data offset of 255 words on a header with no options, and an urgent
\* pointer with the URG bit clear.
C7_Witness ==
  /\ op.kind = "set"
  /\ Seen.data_offset = 255 /\ Seen.options = <<>> /\ Seen.padding = <<>>
  /\ Seen.urgent_pointer = 65535 /\ Seen.flags = 2

\* C8: last write wins. Each accessor returns the value of the most recent
\* mutator call for its field, or the value passed to new if there was none.
C8_LastWriteWins ==
  pc = "live" =>
    /\ Seen = written
    /\ op.kind = "get" => RetVal(ret, heap) = written[op.field]

\* The same field written twice, with different values, after new gave it a
\* third.
C8_Witness ==
  /\ Len(chain) >= 2
  /\ Prior.field = "flags" /\ Last.field = "flags"
  /\ Prior.val /= Last.val
  /\ args.flags \notin {Prior.val, Last.val}

\* C9: a mutator applied with the value its accessor returns leaves all 13
\* fields as they were, and applied twice with the same value gives the same
\* record as applied once.
C9_Idempotence ==
  /\ (Len(chain) >= 1 /\ Last.val = Last.before[Last.field]) =>
        Seen = Last.before
  /\ (Len(chain) >= 2 /\ Prior.field = Last.field /\ Prior.val = Last.val) =>
        Seen = Last.before

\* set_window_size called twice with a value the window did not have.
C9_Witness ==
  /\ Len(chain) >= 2
  /\ Prior.field = "window_size" /\ Last.field = "window_size"
  /\ Prior.val = Last.val
  /\ Prior.before.window_size /= Prior.val

====
